---- MODULE Spec2Model ----
(***************************************************************************)
(* Selina audio service: model lifecycle (asr.py, tts.py), request         *)
(* handlers (server.py) and emotion resolution (markers.py).               *)
(*                                                                         *)
(* Three specifications share the module-level globals of the program:     *)
(*   Spec        the service as uvicorn runs it: lifespan, then handlers;  *)
(*               the two POST handlers are coroutines that call the        *)
(*               blocking model code without awaiting, so each one runs    *)
(*               to completion on the event loop.                          *)
(*   SpecRace    tts.load_model / asr.load_model called from two threads,  *)
(*               one step per global read, constructor call and write.     *)
(*   SpecResolve markers.analyze_single on one message, run repeatedly.    *)
(***************************************************************************)
EXTENDS Integers, Sequences, FiniteSets, TLC

VARIABLES
    started,        \* server.py: lifespan has completed, requests are served
    asr_model,      \* asr._model
    tts_model,      \* tts._model
    tts_model_de,   \* tts._model_de
    built,          \* objects constructed so far, per model class
    last,           \* what the last handler did and answered
    thr,            \* SpecRace: each thread's call, position and locals
    ato_defs,       \* markers._ato_defs
    sem_defs,       \* markers._sem_defs
    msg,            \* SpecResolve: what the marker pipeline yields for the text
    result,         \* SpecResolve: what the last analyze call returned
    defloads        \* SpecResolve: calls of load_atos / load_sems that returned

cacheVars == <<asr_model, tts_model, tts_model_de, built>>
markerVars == <<ato_defs, sem_defs, msg, result, defloads>>
vars == <<started, asr_model, tts_model, tts_model_de, built, last,
          thr, ato_defs, sem_defs, msg, result, defloads>>

----------------------------------------------------------------------------
(* Values *)

Kinds == {"whisper", "base", "german"}

\* Python's None for a model global.
NoHandle == [kind |-> "none", id |-> 0]

\* The n-th object of a model class constructed in this process.
Handle(k, n) == [kind |-> k, id |-> n]

\* What a call into a library can do: return, or raise.  ValueError is kept
\* apart because server.py catches exactly that class.
Outcomes == {"ok", "ValueError", "RuntimeError"}

Whitespace == {" "}

\* Sample strings, as character sequences: empty, blank, and padded text.
Texts == {<< >>, <<" ", " ">>, <<" ", "a">>}
RefTexts == {<< >>, <<"a">>}

Langs == {"de", "en"}
Suffixes == <<".wav", ".mp3", ".flac">>

----------------------------------------------------------------------------
(* str.strip() *)

RECURSIVE lstrip(_)
lstrip(s) ==
    IF s = << >> THEN s
    ELSE IF Head(s) \in Whitespace THEN lstrip(Tail(s)) ELSE s

RECURSIVE rstrip(_)
rstrip(s) ==
    IF s = << >> THEN s
    ELSE IF s[Len(s)] \in Whitespace THEN rstrip(SubSeq(s, 1, Len(s) - 1)) ELSE s

strip(s) == rstrip(lstrip(s))

----------------------------------------------------------------------------
(* asr.load_model *)

\* Mutant of asr_load_model: the object is constructed but the global is not
\* bound to it.
asr_load_modelUnbound(m, o, n) ==
    IF m # NoHandle
    THEN [model |-> m, exc |-> "", ctors |-> << >>]
    ELSE [model |-> m, exc |-> IF o = "ok" THEN "" ELSE o, ctors |-> <<"WhisperModel">>]

\* m: asr._model on entry; o: what WhisperModel(...) does if it is called;
\* n: the number the object gets if the constructor returns one.
asr_load_model(m, o, n) ==
    IF m # NoHandle
    THEN [model |-> m, exc |-> "", ctors |-> << >>]
    ELSE IF o = "ok"
         THEN [model |-> Handle("whisper", n), exc |-> "", ctors |-> <<"WhisperModel">>]
         ELSE [model |-> m, exc |-> o, ctors |-> <<"WhisperModel">>]

----------------------------------------------------------------------------
(* tts.load_model *)

\* The globals on return, the value returned, the exception raised ("" if
\* none), and the calls made, in order: constructor calls, and "except" when
\* the handler of line 32 is entered.
LoadResult(m, mde, ret, exc, ctors) ==
    [model |-> m, model_de |-> mde, ret |-> ret, exc |-> exc, ctors |-> ctors]

\* Mutant of GermanFallback: the base model is used but the German entry is
\* not aliased to it (line 36 dropped).
GermanFallbackNoAlias(m, oB, nB) ==
    IF m = NoHandle
    THEN IF oB = "ok"
         THEN LoadResult(Handle("base", nB), NoHandle, Handle("base", nB),
                         "", <<"F5TTS_german", "except", "F5TTS_base">>)
         ELSE LoadResult(m, NoHandle, NoHandle, oB,
                         <<"F5TTS_german", "except", "F5TTS_base">>)
    ELSE LoadResult(m, NoHandle, m, "", <<"F5TTS_german", "except">>)

\* Mutant of GermanFallback: the test of line 34 dropped, the base model is
\* constructed on every fallback.
GermanFallbackRebuild(m, oB, nB) ==
    IF oB = "ok"
    THEN LoadResult(Handle("base", nB), Handle("base", nB), Handle("base", nB),
                    "", <<"F5TTS_german", "except", "F5TTS_base">>)
    ELSE LoadResult(m, NoHandle, NoHandle, oB,
                    <<"F5TTS_german", "except", "F5TTS_base">>)

\* The except branch of the German path (tts.py 32-36): reuse or construct the
\* base model and alias the German entry to it.
GermanFallback(m, oB, nB) ==
    IF m = NoHandle
    THEN IF oB = "ok"
         THEN LoadResult(Handle("base", nB), Handle("base", nB), Handle("base", nB),
                         "", <<"F5TTS_german", "except", "F5TTS_base">>)
         ELSE LoadResult(m, NoHandle, NoHandle, oB,
                         <<"F5TTS_german", "except", "F5TTS_base">>)
    ELSE LoadResult(m, m, m, "", <<"F5TTS_german", "except">>)

\* lang "de" (tts.py 20-38).
LoadGerman(m, mde, oG, oB, nG, nB) ==
    IF mde # NoHandle
    THEN LoadResult(m, mde, mde, "", << >>)
    ELSE IF oG = "ok"
         THEN LoadResult(m, Handle("german", nG), Handle("german", nG), "",
                         <<"F5TTS_german">>)
         ELSE GermanFallback(m, oB, nB)

\* Mutant of LoadBase: the cache check of line 40 dropped.
LoadBaseNoCheck(m, mde, oB, nB) ==
    IF oB = "ok"
    THEN LoadResult(Handle("base", nB), mde, Handle("base", nB), "", <<"F5TTS_base">>)
    ELSE LoadResult(m, mde, NoHandle, oB, <<"F5TTS_base">>)

\* Mutant of LoadBase: the global is bound before the constructor has
\* succeeded, so a failed construction leaves an entry behind.
LoadBasePoisoned(m, mde, oB, nB) ==
    IF m # NoHandle
    THEN LoadResult(m, mde, m, "", << >>)
    ELSE IF oB = "ok"
         THEN LoadResult(Handle("base", nB), mde, Handle("base", nB), "", <<"F5TTS_base">>)
         ELSE LoadResult(Handle("base", nB), mde, NoHandle, oB, <<"F5TTS_base">>)

\* Any other lang (tts.py 39-45).
LoadBase(m, mde, oB, nB) ==
    IF m # NoHandle
    THEN LoadResult(m, mde, m, "", << >>)
    ELSE IF oB = "ok"
         THEN LoadResult(Handle("base", nB), mde, Handle("base", nB), "", <<"F5TTS_base">>)
         ELSE LoadResult(m, mde, NoHandle, oB, <<"F5TTS_base">>)

\* m, mde: tts._model, tts._model_de on entry; oG, oB: what the German and the
\* base constructor do if called; nG, nB: the numbers of the objects they return.
tts_load_model(lang, m, mde, oG, oB, nG, nB) ==
    IF lang = "de" THEN LoadGerman(m, mde, oG, oB, nG, nB)
    ELSE LoadBase(m, mde, oB, nB)

----------------------------------------------------------------------------
(* tts.get_default_ref_audio *)

NoTxt == [exists |-> FALSE, content |-> << >>]
\* Sample contents of voices/ for one language: nothing; two audio files and no
\* transcript; two audio files and a padded transcript.
NoVoices == [files |-> {}, txt |-> NoTxt]
Voices ==
    {NoVoices,
     [files |-> {".mp3", ".flac"}, txt |-> NoTxt],
     [files |-> {".mp3", ".flac"}, txt |-> [exists |-> TRUE, content |-> <<" ", "v", " ">>]]}

NoAsset == [found |-> FALSE, suffix |-> "", text |-> << >>]

RECURSIVE FirstExisting(_, _)
FirstExisting(files, i) ==
    IF i > Len(Suffixes) THEN 0
    ELSE IF Suffixes[i] \in files THEN i ELSE FirstExisting(files, i + 1)

\* files: the suffixes for which voices/selina_<lang><suffix> exists;
\* txt: voices/selina_<lang>.txt.
get_default_ref_audio(files, txt) ==
    LET i == FirstExisting(files, 1)
    IN  IF i = 0 THEN NoAsset
        ELSE [found |-> TRUE, suffix |-> Suffixes[i],
              text |-> IF txt.exists THEN strip(txt.content) ELSE << >>]

----------------------------------------------------------------------------
(* tts.synthesize *)

NoRefMsg == "No reference audio available. Upload ref_audio or place a default voice file in voices/selina_en.wav"
LibraryMsg == "raised by library"

NoPath == [kind |-> "none", suffix |-> ""]
NotConsulted == [found |-> FALSE, suffix |-> "not consulted", text |-> << >>]

\* What the environment does during one call: constructor outcomes, the
\* voices/ files of the request's language, and the outcomes of
\* model.transcribe and model.infer.
DefaultEnv ==
    [german |-> "ok", base |-> "ok", whisper |-> "ok", files |-> {}, txt |-> NoTxt,
     transcribe |-> "ok", transcript |-> <<"t">>, infer |-> "ok"]

\* Mutant of SelectReference: the default path is used whether or not the
\* file exists.
SelectReferenceAssumed(ref_audio_bytes, ref_text, asset) ==
    IF ref_audio_bytes # "None"
    THEN [path |-> [kind |-> "upload", suffix |-> ".wav"], ref_text |-> ref_text,
          asset |-> NotConsulted, step |-> "tempfile"]
    ELSE [path |-> [kind |-> "default", suffix |-> ".wav"],
          ref_text |-> asset.text, asset |-> asset, step |-> "get_default_ref_audio"]

\* Mutant of SelectReference: a transcript the caller supplied is kept when the
\* default asset is used.
SelectReferenceKeepText(ref_audio_bytes, ref_text, asset) ==
    IF ref_audio_bytes # "None"
    THEN [path |-> [kind |-> "upload", suffix |-> ".wav"], ref_text |-> ref_text,
          asset |-> NotConsulted, step |-> "tempfile"]
    ELSE IF asset.found
         THEN [path |-> [kind |-> "default", suffix |-> asset.suffix],
               ref_text |-> IF ref_text # << >> THEN ref_text ELSE asset.text,
               asset |-> asset, step |-> "get_default_ref_audio"]
         ELSE [path |-> NoPath, ref_text |-> ref_text, asset |-> asset,
               step |-> "get_default_ref_audio"]

\* Reference handling (tts.py 83-96): the uploaded bytes go to a temp file,
\* otherwise the language's default asset, if any, supplies path and transcript.
SelectReference(ref_audio_bytes, ref_text, asset) ==
    IF ref_audio_bytes # "None"
    THEN [path |-> [kind |-> "upload", suffix |-> ".wav"], ref_text |-> ref_text,
          asset |-> NotConsulted, step |-> "tempfile"]
    ELSE IF asset.found
         THEN [path |-> [kind |-> "default", suffix |-> asset.suffix],
               ref_text |-> asset.text, asset |-> asset, step |-> "get_default_ref_audio"]
         ELSE [path |-> NoPath, ref_text |-> ref_text, asset |-> asset,
               step |-> "get_default_ref_audio"]

SynthResult(ld, exc, detail, trace, audio, ref, ref_text, transcriber) ==
    [model |-> ld.model, model_de |-> ld.model_de, handle |-> ld.ret, ctors |-> ld.ctors,
     exc |-> exc, detail |-> detail, trace |-> trace, audio |-> audio,
     asset |-> ref.asset, ref_file |-> ref.path, ref_text |-> ref_text,
     transcriber |-> transcriber]

NoRef == [path |-> NoPath, ref_text |-> << >>, asset |-> NotConsulted, step |-> ""]

\* Steps after the model is loaded and the reference is known (tts.py 97-122).
SynthesizeWithReference(ld, ref, env, t1) ==
    IF ref.path = NoPath
    THEN SynthResult(ld, "ValueError", NoRefMsg, t1, FALSE, ref, ref.ref_text, NoHandle)
    ELSE LET auto == ref.ref_text = << >>
             t2 == IF auto THEN Append(t1, "model.transcribe") ELSE t1
             rt == IF auto THEN env.transcript ELSE ref.ref_text
             who == IF auto THEN ld.ret ELSE NoHandle
         IN  IF auto /\ env.transcribe # "ok"
             THEN SynthResult(ld, env.transcribe, LibraryMsg, t2, FALSE, ref,
                              ref.ref_text, who)
             ELSE IF env.infer # "ok"
                  THEN SynthResult(ld, env.infer, LibraryMsg, Append(t2, "model.infer"),
                                   FALSE, ref, rt, who)
                  ELSE SynthResult(ld, "", "", t2 \o <<"model.infer", "sf.write">>,
                                   TRUE, ref, rt, who)

\* Mutant of tts_synthesize: the reference is looked for first, and a missing
\* reference is raised before load_model is called.
tts_synthesizeReferenceFirst(text, ref_audio_bytes, ref_text, lang, m, mde, env, nG, nB) ==
    LET ref == SelectReference(ref_audio_bytes, ref_text,
                               get_default_ref_audio(env.files, env.txt))
        ld == tts_load_model(lang, m, mde, env.german, env.base, nG, nB)
        t0 == <<ref.step, "load_model">> \o ld.ctors
    IN  IF ref.path = NoPath
        THEN SynthResult(LoadResult(m, mde, NoHandle, "", << >>), "ValueError", NoRefMsg,
                         <<ref.step>>, FALSE, ref, ref.ref_text, NoHandle)
        ELSE IF ld.exc # ""
             THEN SynthResult(ld, ld.exc, LibraryMsg, t0, FALSE, NoRef, ref_text, NoHandle)
             ELSE SynthesizeWithReference(ld, ref, env, t0)

\* m, mde: tts._model, tts._model_de on entry; nG, nB: numbers of the next
\* German / base constructor call.
tts_synthesize(text, ref_audio_bytes, ref_text, lang, m, mde, env, nG, nB) ==
    LET ld == tts_load_model(lang, m, mde, env.german, env.base, nG, nB)
        t0 == <<"load_model">> \o ld.ctors
    IN  IF ld.exc # ""
        THEN SynthResult(ld, ld.exc, LibraryMsg, t0, FALSE, NoRef, ref_text, NoHandle)
        ELSE LET ref == SelectReference(ref_audio_bytes, ref_text,
                                        get_default_ref_audio(env.files, env.txt))
             IN  SynthesizeWithReference(ld, ref, env, Append(t0, ref.step))

----------------------------------------------------------------------------
(* asr.transcribe *)

\* m: asr._model on entry; n: number of the next WhisperModel object.
asr_transcribe(m, env, n) ==
    LET ld == asr_load_model(m, env.whisper, n)
        t0 == <<"asr.load_model">> \o ld.ctors
    IN  IF ld.exc # ""
        THEN [model |-> ld.model, ctors |-> ld.ctors, exc |-> ld.exc, trace |-> t0,
              handle |-> NoHandle]
        ELSE IF env.transcribe # "ok"
             THEN [model |-> ld.model, ctors |-> ld.ctors, exc |-> env.transcribe,
                   trace |-> Append(t0, "whisper.transcribe"), handle |-> ld.model]
             ELSE [model |-> ld.model, ctors |-> ld.ctors, exc |-> "",
                   trace |-> Append(t0, "whisper.transcribe"), handle |-> ld.model]

----------------------------------------------------------------------------
(* server.py: the answers *)

Uploads == {"absent", "empty", "bytes"}

NoHealth == [asr |-> FALSE, tts_en |-> FALSE, tts_de |-> FALSE]

\* A handler's record: the request as received, voices/ for the request's
\* language at that time, what the handler called (trace, in call order), which
\* handle the acquire returned, and the HTTP answer.
Answer(op, status, detail, body) ==
    [op |-> op, status |-> status, detail |-> detail, body |-> body,
     text |-> << >>, upload |-> "absent", ref_text |-> << >>, language |-> "",
     handle |-> NoHandle, trace |-> << >>, asset |-> NotConsulted,
     ref_file |-> NoPath, ref_text_used |-> << >>, transcriber |-> NoHandle,
     voices |-> NoVoices, health |-> NoHealth]

Idle == Answer("none", 0, "", "none")

\* An exception leaving a handler: HTTPException(400) for the ValueError the
\* synthesize handler catches, the framework's 500 for anything else.
StatusOf(exc) == IF exc = "ValueError" THEN 400 ELSE 500

\* Mutant of IsBlank: not text.
IsEmptyText(text) == text = << >>

\* not text.strip()
IsBlank(text) == strip(text) = << >>

\* server.py 84-88: an absent or zero-length upload is passed on as None.
RefAudioBytes(upload) == IF upload = "bytes" THEN "bytes" ELSE "None"

\* Mutant of health: the German flag is taken from the base entry.
healthBaseForGerman(am, m, mde) ==
    [asr |-> am # NoHandle, tts_en |-> m # NoHandle, tts_de |-> m # NoHandle]

\* health(): reads the three globals.
health(am, m, mde) ==
    [asr |-> am # NoHandle, tts_en |-> m # NoHandle, tts_de |-> mde # NoHandle]

\* transcribe_endpoint(file, language); the caches it leaves and its answer.
transcribe_endpoint(upload, am, env, n) ==
    IF upload # "bytes"
    THEN [model |-> am, ctors |-> << >>,
          answer |-> [Answer("transcribe", 400, "Empty audio file", "error")
                        EXCEPT !.upload = upload]]
    ELSE LET r == asr_transcribe(am, env, n)
         IN  [model |-> r.model, ctors |-> r.ctors,
              answer |-> [Answer("transcribe",
                                 IF r.exc = "" THEN 200 ELSE 500,
                                 IF r.exc = "" THEN "" ELSE "Internal Server Error",
                                 IF r.exc = "" THEN "json" ELSE "error")
                            EXCEPT !.upload = upload, !.trace = r.trace,
                                   !.handle = r.handle]]

\* synthesize_endpoint(text, ref_text, ref_audio, language, ...).
synthesize_endpoint(text, upload, ref_text, lang, m, mde, env, nG, nB) ==
    LET req == [Answer("synthesize", 400, "Empty text", "error")
                  EXCEPT !.text = text, !.upload = upload, !.ref_text = ref_text,
                         !.language = lang,
                         !.voices = [files |-> env.files, txt |-> env.txt]]
    IN  IF IsBlank(text)
        THEN [model |-> m, model_de |-> mde, ctors |-> << >>, answer |-> req]
        ELSE LET r == tts_synthesize(text, RefAudioBytes(upload), ref_text, lang,
                                     m, mde, env, nG, nB)
             IN  [model |-> r.model, model_de |-> r.model_de, ctors |-> r.ctors,
                  answer |->
                    [req EXCEPT
                       !.status = IF r.exc = "" THEN 200 ELSE StatusOf(r.exc),
                       !.detail = IF r.exc = "ValueError" THEN r.detail
                                  ELSE IF r.exc = "" THEN ""
                                  ELSE "Internal Server Error",
                       !.body = IF r.exc = "" THEN "audio" ELSE "error",
                       !.handle = r.handle, !.trace = r.trace, !.asset = r.asset,
                       !.ref_file = r.ref_file, !.ref_text_used = r.ref_text,
                       !.transcriber = r.transcriber]]

----------------------------------------------------------------------------
(* Constructor accounting *)

Range(s) == {s[i] : i \in 1..Len(s)}

Ctors == {"WhisperModel", "F5TTS_base", "F5TTS_german"}

\* built after a call that took the caches from before to after (sets of
\* handles): every object a constructor returned is stored in a global.
Built(b, before, after) ==
    [k \in Kinds |-> b[k] + Cardinality({h \in after \ before : h.kind = k})]

\* The environment answers only the calls that are made: a component of the
\* environment ranges over S when the handler reaches the call, else it is d.
Asked(called, S, d) == IF called THEN S ELSE {d}

----------------------------------------------------------------------------
(* Spec: the service *)

Threads == {1, 2}
\* A thread outside load_model: no call, no locals.
IdleThread == [call |-> "none", pc |-> "idle", tmp |-> NoHandle, ret |-> NoHandle,
               exc |-> ""]
ThreadsIdle == [t \in Threads |-> IdleThread]
\* No analyze call yet.
NoResult == [status |-> "none", emotion |-> "", atos |-> {}, sems |-> << >>,
             avatar |-> [mood |-> "", expression |-> ""], tts_instruct |-> ""]

CachesEmpty ==
    /\ asr_model = NoHandle
    /\ tts_model = NoHandle
    /\ tts_model_de = NoHandle
    /\ built = [k \in Kinds |-> 0]

RaceIdle == thr = ThreadsIdle

MarkersIdle ==
    /\ ato_defs = "None"
    /\ sem_defs = "None"
    /\ msg = [atos |-> {}, sems |-> {}]
    /\ result = NoResult
    /\ defloads = [atos |-> 0, sems |-> 0]

Init ==
    /\ started = FALSE
    /\ last = Idle
    /\ CachesEmpty
    /\ RaceIdle
    /\ MarkersIdle

Cached == {asr_model, tts_model, tts_model_de}

\* lifespan(): asr.load_model() before the first request is accepted.  If the
\* constructor raises, startup fails and the process serves nothing.
Lifespan ==
    /\ ~started
    /\ \E o \in Outcomes :
        LET r == asr_load_model(asr_model, o, built["whisper"] + 1)
        IN  /\ asr_model' = r.model
            /\ built' = Built(built, Cached, {r.model, tts_model, tts_model_de})
            /\ started' = (r.exc = "")
            /\ last' = [Answer("lifespan", 0, IF r.exc = "" THEN "" ELSE "startup failed",
                               IF r.exc = "" THEN "none" ELSE "error")
                          EXCEPT !.trace = <<"asr.load_model">> \o r.ctors,
                                 !.handle = r.model]
    /\ UNCHANGED <<tts_model, tts_model_de, thr>>
    /\ UNCHANGED markerVars

\* GET /health
Health ==
    /\ started
    /\ last' = [Answer("health", 200, "", "json")
                  EXCEPT !.health = health(asr_model, tts_model, tts_model_de)]
    /\ UNCHANGED <<started, thr>>
    /\ UNCHANGED cacheVars
    /\ UNCHANGED markerVars

\* POST /transcribe
TranscribeEndpoint ==
    /\ started
    /\ \E upload \in {"empty", "bytes"} :
        \E w \in Asked("WhisperModel" \in
                         Range(transcribe_endpoint(upload, asr_model, DefaultEnv, 0).ctors),
                       Outcomes, "ok") :
        \E t \in Asked("whisper.transcribe" \in
                         Range(transcribe_endpoint(upload, asr_model,
                                   [DefaultEnv EXCEPT !.whisper = w], 0).answer.trace),
                       Outcomes, "ok") :
            LET env == [DefaultEnv EXCEPT !.whisper = w, !.transcribe = t]
                r == transcribe_endpoint(upload, asr_model, env, built["whisper"] + 1)
            IN  /\ asr_model' = r.model
                /\ built' = Built(built, Cached, {r.model, tts_model, tts_model_de})
                /\ last' = r.answer
    /\ UNCHANGED <<started, tts_model, tts_model_de, thr>>
    /\ UNCHANGED markerVars

\* The trace of the synthesize handler under environment e.
SynthTrace(text, upload, ref_text, lang, e) ==
    Range(synthesize_endpoint(text, upload, ref_text, lang, tts_model, tts_model_de,
                              e, 0, 0).answer.trace)

\* POST /synthesize
SynthesizeEndpoint ==
    /\ started
    /\ \E text \in Texts, upload \in Uploads, ref_text \in RefTexts, lang \in Langs :
        \E v \in Voices :
        LET e0 == [DefaultEnv EXCEPT !.files = v.files, !.txt = v.txt] IN
        \E g \in Asked("F5TTS_german" \in SynthTrace(text, upload, ref_text, lang, e0),
                       Outcomes, "ok") :
        LET e1 == [e0 EXCEPT !.german = g] IN
        \E b \in Asked("F5TTS_base" \in SynthTrace(text, upload, ref_text, lang, e1),
                       Outcomes, "ok") :
        LET e3 == [e1 EXCEPT !.base = b] IN
        \E t \in Asked("model.transcribe" \in SynthTrace(text, upload, ref_text, lang, e3),
                       Outcomes, "ok") :
        LET e4 == [e3 EXCEPT !.transcribe = t] IN
        \E i \in Asked("model.infer" \in SynthTrace(text, upload, ref_text, lang, e4),
                       Outcomes, "ok") :
            LET env == [e4 EXCEPT !.infer = i]
                r == synthesize_endpoint(text, upload, ref_text, lang, tts_model,
                                         tts_model_de, env, built["german"] + 1,
                                         built["base"] + 1)
            IN  /\ tts_model' = r.model
                /\ tts_model_de' = r.model_de
                /\ built' = Built(built, Cached, {asr_model, r.model, r.model_de})
                /\ last' = r.answer
    /\ UNCHANGED <<started, asr_model, thr>>
    /\ UNCHANGED markerVars

Next ==
    \/ Lifespan
    \/ Health
    \/ TranscribeEndpoint
    \/ SynthesizeEndpoint

Spec == Init /\ [][Next]_vars

----------------------------------------------------------------------------
(* SpecRace: load_model called from two threads *)

\* Neither function takes a lock, so a thread switch can fall between any two
\* of: the test of the global, the constructor call, the store to the global,
\* and the read of the global for the return value.  pc names the source line
\* a thread executes next (tts.py for "de" and "en", asr.py for "asr").
Calls == {"de", "en", "asr"}

EntryLine(c) ==
    CASE c = "de" -> "tts21"
      [] c = "en" -> "tts40"
      [] c = "asr" -> "asr14"

At(t, line) == thr[t].pc = line
Goto(t, line) == thr' = [thr EXCEPT ![t].pc = line]

InitRace ==
    /\ started = FALSE
    /\ last = Idle
    /\ CachesEmpty
    /\ RaceIdle
    /\ MarkersIdle

\* A thread enters tts.load_model("de"), tts.load_model("en") or
\* asr.load_model().
RaceCall ==
    /\ \E t \in Threads, c \in Calls :
        /\ At(t, "idle")
        /\ thr' = [thr EXCEPT ![t] = [IdleThread EXCEPT !.call = c, !.pc = EntryLine(c)]]
    /\ UNCHANGED <<started, last>>
    /\ UNCHANGED cacheVars
    /\ UNCHANGED markerVars

\* The cache tests: tts.py 21 (_model_de), 34 and 40 (_model), asr.py 14.
RaceTest ==
    /\ \E t \in Threads :
        \/ At(t, "tts21") /\ Goto(t, IF tts_model_de # NoHandle THEN "tts22" ELSE "tts26")
        \/ At(t, "tts34") /\ Goto(t, IF tts_model = NoHandle THEN "tts35" ELSE "tts36")
        \/ At(t, "tts40") /\ Goto(t, IF tts_model # NoHandle THEN "tts41" ELSE "tts43")
        \/ At(t, "asr14") /\ Goto(t, IF asr_model # NoHandle THEN "done" ELSE "asr17")
    /\ UNCHANGED <<started, last>>
    /\ UNCHANGED cacheVars
    /\ UNCHANGED markerVars

\* The line a constructor call goes to when it returns, and when it raises.
AfterCtor(line, ok) ==
    CASE line = "tts26" -> IF ok THEN "tts26store" ELSE "tts34"
      [] line = "tts35" -> IF ok THEN "tts35store" ELSE "done"
      [] line = "tts43" -> IF ok THEN "tts43store" ELSE "done"
      [] line = "asr17" -> IF ok THEN "asr17store" ELSE "done"

CtorAt(line) ==
    CASE line = "tts26" -> "german"
      [] line = "tts35" -> "base"
      [] line = "tts43" -> "base"
      [] line = "asr17" -> "whisper"

\* The constructor calls: tts.py 26-31 (German), 35 and 43 (base), asr.py
\* 17-22.  A raise at 26 is caught at 32; a raise elsewhere leaves the call.
RaceConstruct ==
    /\ \E t \in Threads, o \in Outcomes :
        LET line == thr[t].pc
            k == CtorAt(line)
        IN  /\ line \in {"tts26", "tts35", "tts43", "asr17"}
            /\ IF o = "ok"
               THEN /\ built' = [built EXCEPT ![k] = @ + 1]
                    /\ thr' = [thr EXCEPT ![t].pc = AfterCtor(line, TRUE),
                                          ![t].tmp = Handle(k, built[k] + 1)]
               ELSE /\ built' = built
                    /\ thr' = [thr EXCEPT ![t].pc = AfterCtor(line, FALSE),
                                          ![t].exc = IF line = "tts26" THEN "" ELSE o]
    /\ UNCHANGED <<started, last, asr_model, tts_model, tts_model_de>>
    /\ UNCHANGED markerVars

\* The stores of a constructed object into its global, and the alias of
\* tts.py 36 (_model_de = _model).
RaceStore ==
    /\ \E t \in Threads :
        \/ /\ At(t, "tts26store")
           /\ tts_model_de' = thr[t].tmp
           /\ Goto(t, "tts38")
           /\ UNCHANGED <<asr_model, tts_model>>
        \/ /\ At(t, "tts35store")
           /\ tts_model' = thr[t].tmp
           /\ Goto(t, "tts36")
           /\ UNCHANGED <<asr_model, tts_model_de>>
        \/ /\ At(t, "tts36")
           /\ tts_model_de' = tts_model
           /\ Goto(t, "tts38")
           /\ UNCHANGED <<asr_model, tts_model>>
        \/ /\ At(t, "tts43store")
           /\ tts_model' = thr[t].tmp
           /\ Goto(t, "tts45")
           /\ UNCHANGED <<asr_model, tts_model_de>>
        \/ /\ At(t, "asr17store")
           /\ asr_model' = thr[t].tmp
           /\ Goto(t, "done")
           /\ UNCHANGED <<tts_model, tts_model_de>>
    /\ UNCHANGED <<started, last, built>>
    /\ UNCHANGED markerVars

\* The return statements: tts.py 22 and 38 read _model_de, 41 and 45 read
\* _model, at the time of the return.
RaceReturn ==
    /\ \E t \in Threads :
        \/ /\ thr[t].pc \in {"tts22", "tts38"}
           /\ thr' = [thr EXCEPT ![t].pc = "done", ![t].ret = tts_model_de]
        \/ /\ thr[t].pc \in {"tts41", "tts45"}
           /\ thr' = [thr EXCEPT ![t].pc = "done", ![t].ret = tts_model]
    /\ UNCHANGED <<started, last>>
    /\ UNCHANGED cacheVars
    /\ UNCHANGED markerVars

\* The caller goes on; the thread may call again.
RaceLeave ==
    /\ \E t \in Threads :
        /\ At(t, "done")
        /\ thr' = [thr EXCEPT ![t] = IdleThread]
    /\ UNCHANGED <<started, last>>
    /\ UNCHANGED cacheVars
    /\ UNCHANGED markerVars

\* health() is a plain def, so it runs on a worker thread beside the event
\* loop.  It reads asr._model (server.py 32), then tts._model and
\* tts._model_de (33), and returns the three flags (34-41); a thread switch
\* can fall between the reads.  trace lists the globals read so far.
HealthRunning == last.op = "health" /\ last.status = 0

RaceHealth ==
    /\ LET now == health(asr_model, tts_model, tts_model_de)
       IN  \/ /\ ~HealthRunning
              /\ last' = [Answer("health", 0, "", "none")
                            EXCEPT !.health.asr = now.asr, !.trace = <<"asr._model">>]
           \/ /\ HealthRunning
              /\ Len(last.trace) = 1
              /\ last' = [last EXCEPT !.health.tts_en = now.tts_en,
                                      !.trace = Append(@, "tts._model")]
           \/ /\ HealthRunning
              /\ Len(last.trace) = 2
              /\ last' = [last EXCEPT !.health.tts_de = now.tts_de,
                                      !.trace = Append(@, "tts._model_de"),
                                      !.status = 200, !.body = "json"]
    /\ UNCHANGED <<started, thr>>
    /\ UNCHANGED cacheVars
    /\ UNCHANGED markerVars

NextRace ==
    \/ RaceHealth
    \/ RaceCall
    \/ RaceTest
    \/ RaceConstruct
    \/ RaceStore
    \/ RaceReturn
    \/ RaceLeave

SpecRace == InitRace /\ [][NextRace]_vars

\* C1: however two concurrent load_model calls interleave, no model class is
\* constructed twice, and two completed load_model("de") calls hold the same
\* handle.
C1_SingleConstruction ==
    /\ \A k \in Kinds : built[k] <= 1
    /\ \A t, u \in Threads :
        ( /\ thr[t].call = "de" /\ thr[t].pc = "done" /\ thr[t].exc = ""
          /\ thr[u].call = "de" /\ thr[u].pc = "done" /\ thr[u].exc = "" )
        => thr[t].ret # NoHandle /\ thr[t].ret = thr[u].ret

\* C12: a step of the health check, also between the steps of load_model
\* calls, changes no cache entry, constructs nothing and moves no caller; each
\* flag is whether the entry holds a handle at the moment it is read, and a
\* flag reported true is still true of the entry.
C12_HealthReadOnly ==
    [][ /\ (last'.op = "health" /\ last' # last)
           => /\ UNCHANGED cacheVars
              /\ thr' = thr
              /\ Len(last'.trace) = 1 => last'.health.asr = (asr_model # NoHandle)
              /\ Len(last'.trace) = 2 => last'.health.tts_en = (tts_model # NoHandle)
              /\ Len(last'.trace) = 3 => last'.health.tts_de = (tts_model_de # NoHandle)
        /\ last'.op = "health"
           => /\ last'.health.asr => asr_model' # NoHandle
              /\ last'.health.tts_en => tts_model' # NoHandle
              /\ last'.health.tts_de => tts_model_de' # NoHandle
      ]_vars

\* C12 witness: a health check completed while a load_model call was between
\* its constructor and its store, reporting the German entry and no other.
C12_Witness ==
    /\ last.op = "health"
    /\ last.status = 200
    /\ last.health = [asr |-> FALSE, tts_en |-> FALSE, tts_de |-> TRUE]
    /\ \E t \in Threads : thr[t].pc = "tts43store"
    /\ built["base"] = 1
    /\ tts_model = NoHandle

----------------------------------------------------------------------------
(* Properties of the service (Spec) *)

\* The handler recorded in a called tts.load_model / asr.load_model.
LoadedTTS(a) == a.op = "synthesize" /\ "load_model" \in Range(a.trace)
LoadedASR(a) == a.op \in {"lifespan", "transcribe"} /\ "asr.load_model" \in Range(a.trace)
Constructed(a) == Range(a.trace) \cap Ctors

\* C2: when the German construction fails and the base model is constructed
\* or already cached, the German entry becomes the base handle; from then on
\* every load_model("de") returns that handle and does not call the German
\* constructor again.
C2_FallbackAliasing ==
    [][ /\ ( /\ LoadedTTS(last')
             /\ "except" \in Range(last'.trace)
             /\ last'.handle # NoHandle )
           => /\ tts_model_de' = tts_model'
              /\ tts_model_de' = last'.handle
              /\ last'.handle.kind = "base"
        /\ ( /\ tts_model_de # NoHandle
             /\ tts_model_de = tts_model
             /\ LoadedTTS(last')
             /\ last'.language = "de" )
           => /\ last'.handle = tts_model_de
              /\ "F5TTS_german" \notin Range(last'.trace)
              /\ tts_model_de' = tts_model_de
      ]_vars

\* C2 witness: the German entry is the base handle and the last request, for
\* "de", got it from load_model without a German constructor call.
C2_Witness ==
    /\ tts_model_de # NoHandle
    /\ tts_model_de = tts_model
    /\ tts_model_de.kind = "base"
    /\ LoadedTTS(last)
    /\ last.language = "de"
    /\ last.handle = tts_model_de
    /\ Constructed(last) = {}

\* C5: once a key's entry holds a handle it is never cleared or replaced, and
\* every later acquire for the key returns that handle without calling a
\* constructor.
C5_CachedHandleStable ==
    [][ /\ asr_model # NoHandle => asr_model' = asr_model
        /\ tts_model # NoHandle => tts_model' = tts_model
        /\ tts_model_de # NoHandle => tts_model_de' = tts_model_de
        /\ (asr_model # NoHandle /\ LoadedASR(last'))
           => last'.handle = asr_model /\ Constructed(last') = {}
        /\ (tts_model # NoHandle /\ LoadedTTS(last') /\ last'.language # "de")
           => last'.handle = tts_model /\ Constructed(last') = {}
        /\ (tts_model_de # NoHandle /\ LoadedTTS(last') /\ last'.language = "de")
           => last'.handle = tts_model_de /\ Constructed(last') = {}
      ]_vars

\* C5 witness: all three entries are filled by their own constructors, each
\* built once, and the last request, for "en", was served from the cache.
C5_Witness ==
    /\ asr_model # NoHandle
    /\ tts_model # NoHandle
    /\ tts_model_de # NoHandle
    /\ tts_model_de.kind = "german"
    /\ built = [k \in Kinds |-> 1]
    /\ LoadedTTS(last)
    /\ last.language = "en"
    /\ last.handle = tts_model
    /\ Constructed(last) = {}
    /\ last.status = 200

\* A call that invoked a constructor and got no handle.
FailedAcquire(a) ==
    /\ LoadedTTS(a) \/ LoadedASR(a)
    /\ Constructed(a) # {}
    /\ a.handle = NoHandle

\* C6: a construction failure that no fallback absorbs is reported by the
\* failing call, leaves every entry as it was, and the next acquire for the
\* same key calls the constructor again.
C6_FailureLeavesCacheAndRetries ==
    [][ /\ FailedAcquire(last')
           => /\ UNCHANGED cacheVars
              /\ last'.body = "error"
              /\ last'.status # 200
        /\ (FailedAcquire(last) /\ LoadedASR(last) /\ LoadedASR(last'))
           => "WhisperModel" \in Constructed(last')
        /\ ( /\ FailedAcquire(last) /\ LoadedTTS(last) /\ LoadedTTS(last')
             /\ last'.language = last.language )
           => /\ last.language = "de" => "F5TTS_german" \in Constructed(last')
              /\ last.language # "de" => "F5TTS_base" \in Constructed(last')
      ]_vars

\* C6 witness: a "de" request in which the German and then the base
\* constructor raised, answered 500 with both entries still empty.
C6_Witness ==
    /\ FailedAcquire(last)
    /\ last.language = "de"
    /\ Constructed(last) = {"F5TTS_german", "F5TTS_base"}
    /\ last.status = 500
    /\ tts_model = NoHandle
    /\ tts_model_de = NoHandle
    /\ built["base"] = 0

\* A text with no character other than whitespace.
OnlyWhitespace(t) == \A i \in 1..Len(t) : t[i] \in Whitespace

\* A request with zero-length audio, or with empty or whitespace-only text.
InvalidInput(a) ==
    \/ a.op = "transcribe" /\ a.upload = "empty"
    \/ a.op = "synthesize" /\ OnlyWhitespace(a.text)

\* C9: zero-length audio and empty or whitespace-only text are answered 400
\* with no acquire, no constructor call and the caches unchanged.
C9_ValidationFailsFast ==
    [][ InvalidInput(last')
        => /\ last'.status = 400
           /\ last'.body = "error"
           /\ last'.trace = << >>
           /\ last'.handle = NoHandle
           /\ UNCHANGED cacheVars
      ]_vars

\* C9 witness: a whitespace-only text was rejected with 400 while the
\* synthesis entries were still empty.
C9_Witness ==
    /\ last.op = "synthesize"
    /\ last.text # << >>
    /\ OnlyWhitespace(last.text)
    /\ last.status = 400
    /\ last.detail = "Empty text"
    /\ tts_model = NoHandle
    /\ tts_model_de = NoHandle

\* A synthesis request without reference audio for a language whose voices/
\* directory holds no default asset.
NoReference(a) ==
    /\ a.op = "synthesize"
    /\ a.upload \in {"absent", "empty"}
    /\ a.voices.files = {}

\* C10 as stated: every such request ends in 400 with a message, without
\* inference and without audio.
C10_AsStated ==
    NoReference(last)
    => /\ last.status = 400
       /\ last.detail # ""
       /\ "model.infer" \notin Range(last.trace)
       /\ last.body # "audio"

\* C10 amended: such a request never reaches inference and returns no audio;
\* it ends in 400 with the missing-reference message when its text is not
\* blank and load_model returned a handle; a 500 only comes from load_model
\* raising before the reference is looked at.
C10_MissingReference ==
    NoReference(last)
    => /\ "model.infer" \notin Range(last.trace)
       /\ last.body = "error"
       /\ last.status \in {400, 500}
       /\ last.handle # NoHandle => last.status = 400 /\ last.detail = NoRefMsg
       /\ last.status = 500 => FailedAcquire(last)

\* C10 witness: a zero-length upload, no default asset, model loaded: 400 with
\* the missing-reference message.
C10_Witness ==
    /\ NoReference(last)
    /\ last.upload = "empty"
    /\ last.handle # NoHandle
    /\ last.status = 400
    /\ last.detail = NoRefMsg

\* A synthesis request whose text passed validation.
ValidSynth(a) == a.op = "synthesize" /\ ~OnlyWhitespace(a.text)

\* C13 as stated: the recognition model is constructed once, at startup, and
\* every transcription request finds it cached; a synthesis constructor is
\* called only in a valid synthesis request for its own variant: the German
\* one for "de", the base one for any other language.
C13_AsStated ==
    [][ /\ started' => asr_model' # NoHandle /\ built'["whisper"] = 1
        /\ last'.op = "transcribe" => "WhisperModel" \notin Range(last'.trace)
        /\ "F5TTS_german" \in Range(last'.trace)
           => ValidSynth(last') /\ last'.language = "de"
        /\ "F5TTS_base" \in Range(last'.trace)
           => ValidSynth(last') /\ last'.language # "de"
      ]_vars

\* C13 amended: as above, except that the base constructor is also called in
\* a valid request for "de" whose German construction raised, before any
\* request for another language.
C13_LoadingPolicy ==
    [][ /\ started' => asr_model' # NoHandle /\ built'["whisper"] = 1
        /\ last'.op = "transcribe"
           => /\ "WhisperModel" \notin Range(last'.trace)
              /\ last'.trace # << >> => last'.handle = asr_model
        /\ "F5TTS_german" \in Range(last'.trace)
           => ValidSynth(last') /\ last'.language = "de"
        /\ "F5TTS_base" \in Range(last'.trace)
           => /\ ValidSynth(last')
              /\ last'.language # "de" \/ "except" \in Range(last'.trace)
        /\ (built' # built)
           => \/ last'.op = "lifespan" /\ ~started
              \/ ValidSynth(last')
      ]_vars

\* C13 witness: a transcription served from the handle built at startup while
\* no synthesis model has been constructed.
C13_Witness ==
    /\ started
    /\ last.op = "transcribe"
    /\ last.status = 200
    /\ last.handle = asr_model
    /\ built = [k \in Kinds |-> IF k = "whisper" THEN 1 ELSE 0]
    /\ tts_model = NoHandle
    /\ tts_model_de = NoHandle

\* A synthesis request in which load_model returned a handle, so that the
\* reference handling ran.
ReferenceHandled(a) == a.op = "synthesize" /\ a.handle # NoHandle

\* The first of .wav, .mp3, .flac among the files F.
FirstSuffix(F) ==
    IF ".wav" \in F THEN ".wav" ELSE IF ".mp3" \in F THEN ".mp3" ELSE ".flac"

\* C17: uploaded reference audio is used with the caller's transcript and the
\* default asset is not consulted; without an upload, an existing default
\* asset supplies the audio path and the transcript, and the caller's
\* transcript is not used.
C17_ReferenceSelection ==
    ReferenceHandled(last)
    => /\ last.upload = "bytes"
          => /\ last.ref_file = [kind |-> "upload", suffix |-> ".wav"]
             /\ last.asset = NotConsulted
             /\ "get_default_ref_audio" \notin Range(last.trace)
             /\ last.ref_text # << >>
                => /\ last.ref_text_used = last.ref_text
                   /\ "model.transcribe" \notin Range(last.trace)
       /\ (last.upload # "bytes" /\ last.voices.files # {})
          => /\ last.ref_file = [kind |-> "default",
                                 suffix |-> FirstSuffix(last.voices.files)]
             /\ last.asset.found
             /\ last.asset.text = IF last.voices.txt.exists
                                  THEN strip(last.voices.txt.content) ELSE << >>
             /\ last.ref_text # << >> => last.ref_text_used # last.ref_text
             /\ last.asset.text # << >>
                => /\ last.ref_text_used = last.asset.text
                   /\ "model.transcribe" \notin Range(last.trace)

\* C17 witness: no upload, a caller transcript, a default asset with a
\* transcript file: synthesis ran on the asset's audio and transcript.
C17_Witness ==
    /\ ReferenceHandled(last)
    /\ last.upload = "absent"
    /\ last.ref_text = <<"a">>
    /\ last.ref_file = [kind |-> "default", suffix |-> ".mp3"]
    /\ last.ref_text_used = <<"v">>
    /\ last.status = 200

\* C18: over any sequence of load_model calls the base model is constructed at
\* most once; a German entry filled by fallback is the base entry; after a
\* fallback, load_model for another language returns that handle without a
\* constructor call; a fallback after a base load constructs nothing.
C18_SharedBaseInstance ==
    [][ /\ built'["base"] <= 1
        /\ tts_model_de'.kind = "base" => tts_model_de' = tts_model'
        /\ ( /\ tts_model_de.kind = "base"
             /\ LoadedTTS(last')
             /\ last'.language # "de" )
           => /\ last'.handle = tts_model_de
              /\ Constructed(last') = {}
              /\ built' = built
        /\ ( /\ tts_model # NoHandle
             /\ LoadedTTS(last')
             /\ "except" \in Range(last'.trace) )
           => /\ "F5TTS_base" \notin Range(last'.trace)
              /\ built' = built
              /\ last'.handle = tts_model
              /\ tts_model_de' = tts_model
              /\ tts_model' = tts_model
      ]_vars

\* C18 witness: the base model was loaded first, then a request for "de" fell
\* back to it: one base object, both entries hold it.
C18_Witness ==
    /\ LoadedTTS(last)
    /\ last.language = "de"
    /\ "except" \in Range(last.trace)
    /\ "F5TTS_base" \notin Range(last.trace)
    /\ tts_model_de = tts_model
    /\ tts_model.kind = "base"
    /\ built["base"] = 1
    /\ built["german"] = 0

\* A synthesis request answered with the missing-reference error.
MissingReferenceError(a) ==
    a.op = "synthesize" /\ a.status = 400 /\ a.detail = NoRefMsg

\* C19: a request that ends with the missing-reference error has run
\* load_model for its language before the reference was looked for, and the
\* handle it got is in the cache when the request fails.
C19_AcquireBeforeReferenceCheck ==
    [][ MissingReferenceError(last')
        => /\ Head(last'.trace) = "load_model"
           /\ last'.trace[Len(last'.trace)] = "get_default_ref_audio"
           /\ last'.handle # NoHandle
           /\ last'.handle = IF last'.language = "de" THEN tts_model_de' ELSE tts_model'
           /\ last'.body = "error"
           /\ "model.infer" \notin Range(last'.trace)
      ]_vars

\* C19 witness: a failing request for "de" that constructed the base model by
\* fallback and left it cached under both entries.
C19_Witness ==
    /\ MissingReferenceError(last)
    /\ last.language = "de"
    /\ Constructed(last) = {"F5TTS_german", "F5TTS_base"}
    /\ tts_model_de = tts_model
    /\ tts_model.kind = "base"
    /\ last.handle = tts_model_de

\* The transcript the reference handling leaves: the caller's for an upload,
\* the asset's for a default reference.
SelectedTranscript(a) == IF a.upload = "bytes" THEN a.ref_text ELSE a.asset.text

\* The position of call c in trace t, 0 if it is not there.
Position(t, c) ==
    IF c \in Range(t) THEN CHOOSE i \in 1..Len(t) : t[i] = c ELSE 0

\* C15: with reference audio and an empty transcript, the transcript is
\* obtained from the recognition model, the handle the transcription path
\* uses, before inference runs; with a non-empty transcript no recognition
\* step runs.
C15_RecognitionModelTranscribes ==
    (ReferenceHandled(last) /\ last.ref_file # NoPath)
    => /\ SelectedTranscript(last) = << >>
          => /\ "model.transcribe" \in Range(last.trace)
             /\ last.transcriber = asr_model
             /\ "model.infer" \in Range(last.trace)
                => Position(last.trace, "model.transcribe")
                     < Position(last.trace, "model.infer")
       /\ SelectedTranscript(last) # << >>
          => "model.transcribe" \notin Range(last.trace)

\* A synthesis request that a library call ended: the base constructor, the
\* model's transcribe or the model's infer raised.
LibraryFailure(a) ==
    /\ a.op = "synthesize"
    /\ a.body = "error"
    /\ \/ FailedAcquire(a)
       \/ a.trace # << >> /\ a.trace[Len(a.trace)] \in {"model.transcribe", "model.infer"}

\* C11: /synthesize answers 400 only for blank text or for a missing reference
\* with no default asset; every failure raised while acquiring the model,
\* obtaining the reference transcript or running inference is answered 500.
C11_ClientErrorsOnly ==
    /\ (last.op = "synthesize" /\ last.status = 400)
       => OnlyWhitespace(last.text) \/ NoReference(last)
    /\ LibraryFailure(last) => last.status = 500

----------------------------------------------------------------------------
(* markers.py: the tables *)

\* SEM_TO_EMOTION, in the order the dict literal declares its entries.
SemTable ==
    << <<"SEM_ACTIVE_ENGAGEMENT", "engaged">>,
       <<"SEM_PASSIVE_ENGAGEMENT", "engaged">>,
       <<"SEM_POSITIVE_MOMENTUM", "happy">>,
       <<"SEM_FIRM_PROMISE", "engaged">>,
       <<"SEM_IMMEDIATE_ACTION", "engaged">>,
       <<"SEM_POTENTIAL_ESCALATION", "frustrated">>,
       <<"SEM_REPETITIVE_ESCALATION", "frustrated">>,
       <<"SEM_CONFLICT_START", "frustrated">>,
       <<"SEM_FRUSTRATED", "frustrated">>,
       <<"SEM_STRONG_DISAGREEMENT", "frustrated">>,
       <<"SEM_REFUSAL", "frustrated">>,
       <<"SEM_FIRM_WITHDRAWAL", "sad">>,
       <<"SEM_SOFT_WITHDRAWAL", "sad">>,
       <<"SEM_HESITANT_UNCERTAINTY", "anxious">>,
       <<"SEM_CERTAIN_UNCERTAINTY", "uncertain">>,
       <<"SEM_HESITANT_AGREEMENT", "uncertain">>,
       <<"SEM_HESITANT_REQUEST", "uncertain">>,
       <<"SEM_TIME_CONFLICT", "anxious">>,
       <<"SEM_EMOTIONAL_MIXED", "mixed">> >>

SemKeys == {SemTable[i][1] : i \in 1..Len(SemTable)}
\* The position of key k among the declared entries.
TableIndex(k) == CHOOSE i \in 1..Len(SemTable) : SemTable[i][1] = k
SEM_TO_EMOTION == [k \in SemKeys |-> SemTable[TableIndex(k)][2]]

ATO_TO_EMOTION ==
    ("ATO_POSITIVE" :> "happy") @@ ("ATO_NEGATIVE" :> "sad") @@
    ("ATO_FRUSTRATION" :> "frustrated") @@ ("ATO_HESITATION" :> "anxious") @@
    ("ATO_ENGAGEMENT" :> "engaged") @@ ("ATO_WITHDRAWAL" :> "sad") @@
    ("ATO_INTENSIFIER" :> "intense")

\* Mutant of AtoPriority: the order in which ATO_TO_EMOTION declares its keys.
AtoPriorityDeclared ==
    <<"ATO_POSITIVE", "ATO_NEGATIVE", "ATO_FRUSTRATION", "ATO_HESITATION",
      "ATO_ENGAGEMENT", "ATO_WITHDRAWAL", "ATO_INTENSIFIER">>

\* The tuple of lines 127-129.
AtoPriority ==
    <<"ATO_POSITIVE", "ATO_NEGATIVE", "ATO_FRUSTRATION", "ATO_WITHDRAWAL",
      "ATO_ENGAGEMENT", "ATO_HESITATION", "ATO_INTENSIFIER">>

Avatar(m, e) == [mood |-> m, expression |-> e]

EMOTION_TO_AVATAR ==
    ("happy" :> Avatar("happy", "smile")) @@
    ("sad" :> Avatar("sad", "frown")) @@
    ("frustrated" :> Avatar("angry", "serious")) @@
    ("anxious" :> Avatar("concerned", "worried")) @@
    ("uncertain" :> Avatar("neutral", "thinking")) @@
    ("engaged" :> Avatar("happy", "attentive")) @@
    ("mixed" :> Avatar("neutral", "thoughtful")) @@
    ("intense" :> Avatar("surprised", "alert")) @@
    ("neutral" :> Avatar("neutral", "idle"))

EMOTION_TO_TTS ==
    ("happy" :> "Mit froehlicher, warmer Stimme") @@
    ("sad" :> "Mit sanfter, einfuehlsamer Stimme") @@
    ("frustrated" :> "Mit ruhiger, neutraler Stimme") @@
    ("anxious" :> "Mit ruhiger, beruhigender Stimme") @@
    ("uncertain" :> "Mit geduldiger, ermutigender Stimme") @@
    ("engaged" :> "Mit enthusiastischer, lebhafter Stimme") @@
    ("mixed" :> "Mit verstaendnisvoller Stimme") @@
    ("intense" :> "Mit klarer, bestimmter Stimme") @@
    ("neutral" :> "")

\* Mutant of Get: the default whatever the key.
GetDefault(d, key, default) == default

\* dict.get(key, default)
Get(d, key, default) == IF key \in DOMAIN d THEN d[key] ELSE default

----------------------------------------------------------------------------
(* markers.analyze_single: resolution *)

\* Mutant of SemEmotion: no break, the last mapped name in the list wins.
RECURSIVE SemEmotionLast(_, _)
SemEmotionLast(sem_names, emotion) ==
    IF sem_names = << >> THEN emotion
    ELSE IF Head(sem_names) \in SemKeys
         THEN SemEmotionLast(Tail(sem_names), SEM_TO_EMOTION[Head(sem_names)])
         ELSE SemEmotionLast(Tail(sem_names), emotion)

\* Lines 120-124: walk the list of composed names; the first one that is a key
\* of SEM_TO_EMOTION sets the emotion and ends the loop.
RECURSIVE SemEmotion(_, _)
SemEmotion(sem_names, emotion) ==
    IF sem_names = << >> THEN emotion
    ELSE IF Head(sem_names) \in SemKeys
         THEN SEM_TO_EMOTION[Head(sem_names)]
         ELSE SemEmotion(Tail(sem_names), emotion)

RECURSIVE AtoScan(_, _, _)
AtoScan(i, ato_names, emotion) ==
    IF i > Len(AtoPriority) THEN emotion
    ELSE IF AtoPriority[i] \in ato_names /\ AtoPriority[i] \in DOMAIN ATO_TO_EMOTION
         THEN ATO_TO_EMOTION[AtoPriority[i]]
         ELSE AtoScan(i + 1, ato_names, emotion)

\* Mutant of AtoEmotion: the atomic table is consulted whatever the composed
\* markers gave.
AtoEmotionAlways(emotion, ato_names) ==
    IF ato_names # {} THEN AtoScan(1, ato_names, emotion) ELSE emotion

\* Lines 125-132: only while the emotion is still "neutral" and some atomic
\* name was found, take the first name of the priority tuple that is present.
AtoEmotion(emotion, ato_names) ==
    IF emotion = "neutral" /\ ato_names # {}
    THEN AtoScan(1, ato_names, emotion)
    ELSE emotion

\* Lines 119-140.  ato_names is only tested for membership; sem_names is
\* walked in its list order.
Resolve(ato_names, sem_names) ==
    LET emotion == AtoEmotion(SemEmotion(sem_names, "neutral"), ato_names)
    IN  [status |-> "ok", emotion |-> emotion, atos |-> ato_names, sems |-> sem_names,
         avatar |-> Get(EMOTION_TO_AVATAR, emotion, EMOTION_TO_AVATAR["neutral"]),
         tts_instruct |-> Get(EMOTION_TO_TTS, emotion, "")]

Raised == [NoResult EXCEPT !.status = "error"]

----------------------------------------------------------------------------
(* SpecResolve: analyze_single and analyze_conversation on one message *)

MaxSems == 2    \* most distinct composed markers in the message

AtoUniverse == DOMAIN ATO_TO_EMOTION \cup {"ATO_QUESTION"}
SemUniverse == SemKeys \cup {"SEM_UNMAPPED"}

RECURSIVE UpTo(_, _)
UpTo(U, n) ==
    IF n = 0 THEN {{}}
    ELSE LET P == UpTo(U, n - 1) IN P \cup {S \cup {x} : S \in P, x \in U}

\* The atomic markers of the message: none, one, or two distinct ones.
AtoSets == {{}} \cup {{a, b} : a, b \in AtoUniverse}

\* list(set): the names in the order the set's hash table yields them, which
\* depends on the process's string hash seed.
Lists(S) == {f \in [1..Cardinality(S) -> S] : Range(f) = S}

\* What the marker pipeline finds in the text: detect_atos and compose_sems
\* are functions of the text, so msg is fixed for all calls.
InitResolve ==
    /\ started = FALSE
    /\ last = Idle
    /\ CachesEmpty
    /\ RaceIdle
    /\ ato_defs = "None"
    /\ sem_defs = "None"
    /\ result = NoResult
    /\ defloads = [atos |-> 0, sems |-> 0]
    /\ msg \in [atos : AtoSets, sems : UpTo(SemUniverse, MaxSems)]

\* _ensure_loaded(): lines 23-28.  a, b: what load_atos and load_sems do.
ensure_loaded(ad, sd, n, a, b) ==
    IF ad # "None" THEN [ato_defs |-> ad, sem_defs |-> sd, defloads |-> n, exc |-> ""]
    ELSE IF a # "ok" THEN [ato_defs |-> ad, sem_defs |-> sd, defloads |-> n, exc |-> a]
    ELSE IF b # "ok"
         THEN [ato_defs |-> "Loaded", sem_defs |-> sd,
               defloads |-> [n EXCEPT !.atos = @ + 1], exc |-> b]
         ELSE [ato_defs |-> "Loaded", sem_defs |-> "Loaded",
               defloads |-> [atos |-> n.atos + 1, sems |-> n.sems + 1], exc |-> ""]

\* analyze_single(text).  compose_sems belongs to the external pipeline; given
\* None for its definitions it either raises or composes from definitions of
\* its own.
AnalyzeSingle ==
    /\ \E a \in Asked(ato_defs = "None", Outcomes, "ok") :
       \E b \in Asked(ato_defs = "None" /\ a = "ok", Outcomes, "ok") :
        LET ld == ensure_loaded(ato_defs, sem_defs, defloads, a, b)
        IN  /\ ato_defs' = ld.ato_defs
            /\ sem_defs' = ld.sem_defs
            /\ defloads' = ld.defloads
            /\ IF ld.exc # ""
               THEN result' = Raised
               ELSE \/ /\ ld.sem_defs = "None"
                       /\ result' = Raised
                    \/ \E sem_names \in Lists(msg.sems) :
                         result' = Resolve(msg.atos, sem_names)
    /\ UNCHANGED <<started, last, thr, msg>>
    /\ UNCHANGED cacheVars

\* analyze_conversation(messages): _ensure_loaded, then the external pipeline.
AnalyzeConversation ==
    /\ \E a \in Asked(ato_defs = "None", Outcomes, "ok") :
       \E b \in Asked(ato_defs = "None" /\ a = "ok", Outcomes, "ok") :
        LET ld == ensure_loaded(ato_defs, sem_defs, defloads, a, b)
        IN  /\ ato_defs' = ld.ato_defs
            /\ sem_defs' = ld.sem_defs
            /\ defloads' = ld.defloads
            /\ result' = IF ld.exc # "" THEN Raised
                         ELSE [NoResult EXCEPT !.status = "conversation"]
    /\ UNCHANGED <<started, last, thr, msg>>
    /\ UNCHANGED cacheVars

NextResolve ==
    \/ AnalyzeSingle
    \/ AnalyzeConversation

SpecResolve == InitResolve /\ [][NextResolve]_vars

----------------------------------------------------------------------------
(* Properties of resolution (SpecResolve) *)

\* The three results that avatar and voice are driven by.
Bundle(r) == <<r.emotion, r.avatar, r.tts_instruct>>

\* The composed names of a result that are keys of SEM_TO_EMOTION.
Mapped(r) == Range(r.sems) \cap SemKeys

\* The key among K declared first in SEM_TO_EMOTION.
Earliest(K) == CHOOSE k \in K : \A j \in K : TableIndex(k) <= TableIndex(j)

MomentumAndEscalation(r) ==
    /\ r.status = "ok"
    /\ Range(r.sems) = {"SEM_POSITIVE_MOMENTUM", "SEM_POTENTIAL_ESCALATION"}

C4_EarliestTableEntryWins ==
    (result.status = "ok" /\ Mapped(result) # {})
    => result.emotion = SEM_TO_EMOTION[Earliest(Mapped(result))]

\* C7: two runs on the same atomic and composed sets give the same emotion,
\* avatar directive and voice instruction.
C7_Deterministic ==
    [][ ( /\ result.status = "ok" /\ result'.status = "ok"
          /\ result'.atos = result.atos
          /\ Range(result'.sems) = Range(result.sems) )
        => Bundle(result') = Bundle(result)
      ]_vars

\* C8: the atomic table decides only when no composed marker matched: no
\* composed markers and {ATO_FRUSTRATION} give frustrated, no markers at all
\* give neutral, and when a composed marker is a key of the table the emotion
\* is one mapped from a present composed marker, the same as with no atomic
\* markers at all.
C8_AtomicOnlyOnComposedSilence ==
    result.status = "ok"
    => /\ (result.sems = << >> /\ result.atos = {"ATO_FRUSTRATION"})
          => result.emotion = "frustrated"
       /\ (result.sems = << >> /\ result.atos = {})
          => result.emotion = "neutral"
       /\ Mapped(result) # {}
          => /\ result.emotion \in {SEM_TO_EMOTION[k] : k \in Mapped(result)}
             /\ Bundle(result) = Bundle(Resolve({}, result.sems))
       /\ (Mapped(result) = {} /\ result.atos \cap DOMAIN ATO_TO_EMOTION # {})
          => result.emotion \in {ATO_TO_EMOTION[k] : k \in result.atos \cap DOMAIN ATO_TO_EMOTION}

\* C8 witness: a mapped composed marker together with atomic markers mapped
\* to other emotions; the composed marker decides.
C8_Witness ==
    /\ result.status = "ok"
    /\ result.sems = <<"SEM_POSITIVE_MOMENTUM">>
    /\ result.atos = {"ATO_FRUSTRATION", "ATO_NEGATIVE"}
    /\ result.emotion = "happy"

\* The labels resolution can produce, and labels outside the closed set.
ProducibleLabels ==
    {SEM_TO_EMOTION[k] : k \in DOMAIN SEM_TO_EMOTION}
      \cup {ATO_TO_EMOTION[k] : k \in DOMAIN ATO_TO_EMOTION} \cup {"neutral"}
UnknownLabels == {"bored", "", "Happy"}

\* C14: every label resolution can produce has an avatar directive and a voice
\* instruction, and a result carries the ones of its emotion; a label outside
\* the closed set gets the neutral directive and the empty instruction.
C14_TotalCoverage ==
    /\ \A e \in ProducibleLabels :
          e \in DOMAIN EMOTION_TO_AVATAR /\ e \in DOMAIN EMOTION_TO_TTS
    /\ result.status = "ok"
       => /\ result.emotion \in ProducibleLabels
          /\ result.avatar = EMOTION_TO_AVATAR[result.emotion]
          /\ result.tts_instruct = EMOTION_TO_TTS[result.emotion]
    /\ \A e \in UnknownLabels :
          /\ e \notin ProducibleLabels
          /\ Get(EMOTION_TO_AVATAR, e, EMOTION_TO_AVATAR["neutral"])
               = [mood |-> "neutral", expression |-> "idle"]
          /\ Get(EMOTION_TO_TTS, e, "") = ""

\* C14 witness: a result with the label only the atomic table produces, with
\* its own directive and instruction.
C14_Witness ==
    /\ result.status = "ok"
    /\ result.emotion = "intense"
    /\ result.avatar = [mood |-> "surprised", expression |-> "alert"]
    /\ result.tts_instruct = "Mit klarer, bestimmter Stimme"

\* The order the claim fixes: six content markers, then the modifier.
ContentMarkers ==
    <<"ATO_POSITIVE", "ATO_NEGATIVE", "ATO_FRUSTRATION", "ATO_WITHDRAWAL",
      "ATO_ENGAGEMENT", "ATO_HESITATION">>
ContentThenModifier == Append(ContentMarkers, "ATO_INTENSIFIER")

\* The positions of the order whose marker is among the atomic names A.
Present(A) == {i \in 1..Len(ContentThenModifier) : ContentThenModifier[i] \in A}

\* C16: when no composed marker matched, the emotion is that of the first
\* atomic marker present in the fixed order; ATO_INTENSIFIER decides only when
\* none of the six content markers is present, and atomic markers outside the
\* order leave the emotion neutral.
C16_AtomicPriority ==
    (result.status = "ok" /\ Mapped(result) = {})
    => LET P == Present(result.atos)
       IN  /\ P = {} => result.emotion = "neutral"
           /\ P # {} => \E i \in P :
                          /\ \A j \in P : i <= j
                          /\ result.emotion = ATO_TO_EMOTION[ContentThenModifier[i]]
           /\ result.emotion = "intense"
              <=> /\ "ATO_INTENSIFIER" \in result.atos
                  /\ result.atos \cap Range(ContentMarkers) = {}

\* C16 witness: hesitation together with the intensifier, no composed marker
\* mapped: the content marker decides.
C16_Witness ==
    /\ result.status = "ok"
    /\ Mapped(result) = {}
    /\ result.atos = {"ATO_HESITATION", "ATO_INTENSIFIER"}
    /\ result.emotion = "anxious"

\* C20: after any sequence of analyze calls, also ones in which load_atos or
\* load_sems raised, the two definition sets are both unloaded or both loaded,
\* each was loaded at most once, and a call that returned a result ran with
\* both loaded.
C20_LoadedAsUnit ==
    /\ (ato_defs = "None") <=> (sem_defs = "None")
    /\ defloads.atos <= 1
    /\ defloads.sems <= 1
    /\ result.status \in {"ok", "conversation"}
       => ato_defs = "Loaded" /\ sem_defs = "Loaded"

====
